---------------------------- MODULE Spec2Model ----------------------------
(***************************************************************************)
(* A model of the command-mask plugin (main.py): the rule parser, the      *)
(* process-wide rule store STATE, the matcher _apply_mapping behind the    *)
(* filter entry point, and the reply hook _override_reply.                 *)
(*                                                                         *)
(* A Python str is a sequence of one-character strings.  A character       *)
(* outside ASCII is written by its code point, "U+9759"; str.lower leaves  *)
(* such a character alone, as Python does.                                 *)
(***************************************************************************)
EXTENDS Integers, Sequences, FiniteSets, TLC

VARIABLES
    pc,          \* parser harness: "in" before the parser ran, "out" after
    inKind,      \* parser harness: "line" | "record", the input's shape
    inA,         \* parser harness: the text left of the separator / the command value
    inB,         \* parser harness: the text right of the separator / the alias value
    inLine,      \* parser harness: the line handed to _parse_mapping_line
    inItem,      \* parser harness: the record handed to _build_mappings
    outEntries,  \* parser harness: what the parser returned (0 or 1 entries)
    cfgIdx,      \* CmdMask._config: index into PluginConfigs
    Store,       \* the module global STATE (a reserved word here): [enabled, mappings]
    load,        \* _load_config in flight: [pc, enabled, mappings]
    hostCfg,     \* the host configuration handed to the filter: index into HostConfigs
    event,       \* the in-flight AstrMessageEvent
    last         \* the last handler that ran, how it ended, and the event before it

parseVars == <<pc, inKind, inA, inB, inLine, inItem, outEntries>>
plugVars == <<cfgIdx, Store, load, hostCfg, event, last>>
vars == <<pc, inKind, inA, inB, inLine, inItem, outEntries,
          cfgIdx, Store, load, hostCfg, event, last>>

(***************************************************************************)
(* Python str operations                                                   *)
(***************************************************************************)

\* The characters str.strip and the regex class \s remove.
Whitespace == {" ", "\t", "\n", "\r"}

RECURSIVE lstrip(_)
lstrip(s) ==
    IF s = <<>> THEN <<>>
    ELSE IF Head(s) \in Whitespace THEN lstrip(Tail(s)) ELSE s

RECURSIVE rstrip(_)
rstrip(s) ==
    IF s = <<>> THEN <<>>
    ELSE IF s[Len(s)] \in Whitespace THEN rstrip(SubSeq(s, 1, Len(s) - 1)) ELSE s

strip(s) == rstrip(lstrip(s))

\* re.sub(r"\s+", " ", s): every run of whitespace becomes one space.
RECURSIVE collapse(_)
collapse(s) ==
    IF s = <<>> THEN <<>>
    ELSE IF Head(s) \in Whitespace THEN <<" ">> \o collapse(lstrip(s))
    ELSE <<Head(s)>> \o collapse(Tail(s))

startswith(s, p) == Len(p) <= Len(s) /\ SubSeq(s, 1, Len(p)) = p

\* str.find, 1-based; 0 when sub does not occur.
find(s, sub) ==
    LET hits == {i \in 1..(Len(s) - Len(sub) + 1) : SubSeq(s, i, i + Len(sub) - 1) = sub}
    IN  IF hits = {} THEN 0 ELSE CHOOSE i \in hits : \A j \in hits : i <= j

contains(s, sub) == find(s, sub) # 0

\* s.split(sep, 1) for a sep that occurs in s: the text before and after its
\* first occurrence.
split1(s, sep) ==
    LET i == find(s, sep)
    IN  <<SubSeq(s, 1, i - 1), SubSeq(s, i + Len(sep), Len(s))>>

\* s.split(sep)
RECURSIVE split(_, _)
split(s, sep) ==
    IF ~contains(s, sep) THEN <<s>>
    ELSE <<split1(s, sep)[1]>> \o split(split1(s, sep)[2], sep)

\* s.splitlines(): lines end at "\n"; no empty last line.
RECURSIVE splitlines(_)
splitlines(s) ==
    IF s = <<>> THEN <<>>
    ELSE IF ~contains(s, <<"\n">>) THEN <<s>>
    ELSE <<split1(s, <<"\n">>)[1]>> \o splitlines(split1(s, <<"\n">>)[2])

UpperCase == <<"A", "B", "C", "D", "E", "F", "G", "H", "I", "J", "K", "L", "M",
               "N", "O", "P", "Q", "R", "S", "T", "U", "V", "W", "X", "Y", "Z">>
LowerCase == <<"a", "b", "c", "d", "e", "f", "g", "h", "i", "j", "k", "l", "m",
               "n", "o", "p", "q", "r", "s", "t", "u", "v", "w", "x", "y", "z">>

\* str.lower
lower(s) ==
    [i \in 1..Len(s) |->
        IF \E k \in 1..26 : UpperCase[k] = s[i]
        THEN LowerCase[CHOOSE k \in 1..26 : UpperCase[k] = s[i]]
        ELSE s[i]]

(***************************************************************************)
(* Python values of type Any: None, str, bool, dict, list                  *)
(***************************************************************************)

None == [t |-> "none"]
Str(s) == [t |-> "str", s |-> s]
Bool(b) == [t |-> "bool", b |-> b]
Dict(d) == [t |-> "dict", d |-> d]
List(l) == [t |-> "list", l |-> l]

\* bool(v)
truthy(v) ==
    CASE v.t = "none" -> FALSE
      [] v.t = "str"  -> v.s # <<>>
      [] v.t = "bool" -> v.b
      [] v.t = "dict" -> DOMAIN v.d # {}
      [] v.t = "list" -> v.l # <<>>

\* a or b
or(a, b) == IF truthy(a) THEN a ELSE b

\* item.get(key, default) on a dict value
get(item, key, default) == IF key \in DOMAIN item.d THEN item.d[key] ELSE default

\* str(v) for the values _read_text meets
str(v) ==
    CASE v.t = "str"  -> v.s
      [] v.t = "bool" -> IF v.b THEN <<"T", "r", "u", "e">> ELSE <<"F", "a", "l", "s", "e">>

(***************************************************************************)
(* main.py: normalisation and readers                                      *)
(***************************************************************************)

_normalize_text(text) == collapse(strip(text))

_read_str(value) == IF value.t = "str" THEN strip(value.s) ELSE <<>>

_read_text(value) ==
    IF value.t = "none" THEN <<>>
    ELSE IF value.t = "str" THEN strip(value.s)
    ELSE strip(str(value))

\* cfg.get("wake_prefix", []) read into a list of non-empty strings
_get_wake_prefixes(cfg) ==
    LET raw == get(cfg, "wake_prefix", List(<<>>))
        prefixes == IF raw.t = "str" THEN List(<<raw>>) ELSE raw
    IN  IF prefixes.t # "list" THEN <<>>
        ELSE LET keep == SelectSeq(prefixes.l, LAMBDA p : p.t = "str" /\ p.s # <<>>)
             IN  [i \in 1..Len(keep) |-> keep[i].s]

RECURSIVE _strip_wake_prefix(_, _)
_strip_wake_prefix(text, prefixes) ==
    IF prefixes = <<>> THEN text
    ELSE IF Head(prefixes) # <<>> /\ startswith(text, Head(prefixes))
         THEN strip(SubSeq(text, Len(Head(prefixes)) + 1, Len(text)))
         ELSE _strip_wake_prefix(text, Tail(prefixes))

(***************************************************************************)
(* main.py: the inline DSL parser                                          *)
(***************************************************************************)

MappingEntry(alias_raw, target_raw, reply_mode, reply_text) ==
    [alias_raw |-> alias_raw, target_raw |-> target_raw,
     reply_mode |-> reply_mode, reply_text |-> reply_text]

SilentWords == {<<"s", "i", "l", "e", "n", "t">>, <<"m", "u", "t", "e">>,
                <<"n", "o", "_", "r", "e", "p", "l", "y">>}
SilentZh == {<<"U+9759", "U+9ED8">>, <<"U+4E0D", "U+56DE", "U+590D">>,
             <<"U+4E0D", "U+56DE">>, <<"U+65E0", "U+56DE", "U+590D">>}
KeepWords == {<<"k", "e", "e", "p">>, <<"d", "e", "f", "a", "u", "l", "t">>,
              <<"p", "a", "s", "s", "t", "h", "r", "o", "u", "g", "h">>}
KeepZh == {<<"U+4FDD", "U+7559">>, <<"U+9ED8", "U+8BA4">>, <<"U+539F", "U+6837">>}
CustomWords == {<<"c", "u", "s", "t", "o", "m">>}
CustomZh == {<<"U+81EA", "U+5B9A", "U+4E49">>, <<"U+81EA", "U+8BA2">>}

ModeName(word) ==
    CASE word = <<"s", "i", "l", "e", "n", "t">> -> "silent"
      [] word = <<"c", "u", "s", "t", "o", "m">> -> "custom"
      [] word = <<"k", "e", "e", "p">> -> "keep"

\* An option "reply_mode=<value>": the mode it names, or the current one.
ReplyModeOption(opt_strip, reply_mode) ==
    LET mode == strip(split1(opt_strip, <<"=">>)[2])
        mode_lower == lower(mode)
    IN  IF mode_lower \in {<<"s", "i", "l", "e", "n", "t">>,
                           <<"c", "u", "s", "t", "o", "m">>, <<"k", "e", "e", "p">>}
        THEN ModeName(mode_lower)
        ELSE IF mode \in SilentZh THEN "silent"
        ELSE IF mode \in CustomZh THEN "custom"
        ELSE IF mode \in KeepZh THEN "keep"
        ELSE reply_mode

\* The options whose value is the custom reply text.
ReplyTextCustom(opt_strip) == <<"custom", strip(split1(opt_strip, <<"=">>)[2])>>

IsReplyTextOption(opt_strip, lower_) ==
    \/ startswith(lower_, <<"r", "e", "p", "l", "y", "=">>)
    \/ startswith(lower_, <<"r", "e", "p", "l", "y", "_", "t", "e", "x", "t", "=">>)
    \/ startswith(opt_strip, <<"U+56DE", "U+590D", "=">>)
    \/ startswith(opt_strip, <<"U+56DE", "U+590D", "U+6587", "U+672C", "=">>)

\* One turn of the loop over parts[1:]: <<reply_mode, reply_text>> after opt.
ParseOption(opt, reply_mode, reply_text) ==
    LET opt_strip == strip(opt)
        lower_ == lower(opt_strip)
    IN  IF lower_ \in SilentWords \/ opt_strip \in SilentZh THEN <<"silent", reply_text>>
        ELSE IF lower_ \in KeepWords \/ opt_strip \in KeepZh THEN <<"keep", reply_text>>
        ELSE IF lower_ \in CustomWords \/ opt_strip \in CustomZh THEN <<"custom", reply_text>>
        ELSE IF \/ startswith(lower_, <<"r", "e", "p", "l", "y", "_", "m", "o", "d", "e", "=">>)
                \/ startswith(opt_strip, <<"U+56DE", "U+590D", "U+6A21", "U+5F0F", "=">>)
             THEN <<ReplyModeOption(opt_strip, reply_mode), reply_text>>
        ELSE IF IsReplyTextOption(opt_strip, lower_) THEN ReplyTextCustom(opt_strip)
        ELSE IF \/ startswith(lower_, <<"t", "e", "x", "t", "=">>)
                \/ startswith(opt_strip, <<"U+6587", "U+672C", "=">>)
             THEN <<"custom", strip(split1(opt_strip, <<"=">>)[2])>>
        ELSE IF startswith(opt_strip, <<"U+56DE", "U+590D", ":">>)
             THEN <<"custom", strip(split1(opt_strip, <<":">>)[2])>>
        ELSE <<"custom", opt_strip>>

RECURSIVE ParseOptions(_, _, _)
ParseOptions(opts, reply_mode, reply_text) ==
    IF opts = <<>> THEN <<reply_mode, reply_text>>
    ELSE LET r == ParseOption(Head(opts), reply_mode, reply_text)
         IN  ParseOptions(Tail(opts), r[1], r[2])

\* parts[0] split as if the alias were written first.
SplitMapping_AliasFirst(mapping_part) ==
    LET sep == IF contains(mapping_part, <<"=", ">">>) THEN <<"=", ">">> ELSE <<"-", ">">>
    IN  <<split1(mapping_part, sep)[2], split1(mapping_part, sep)[1]>>

\* parts[0] split at "=>", else at "->": <<target_raw, alias_raw>>.
SplitMapping(mapping_part) ==
    IF contains(mapping_part, <<"=", ">">>) THEN split1(mapping_part, <<"=", ">">>)
    ELSE split1(mapping_part, <<"-", ">">>)

\* The result is a sequence: <<>> for None, <<entry>> for an entry.  The
\* callers hand in a str, so `not isinstance(line, str)` is never met.
_parse_mapping_line(line) ==
    LET segs == split(line, <<"|", "|">>)
        stripped == [i \in 1..Len(segs) |-> strip(segs[i])]
        parts == SelectSeq(stripped, LAMBDA p : p # <<>>)
    IN  IF line = <<>> \/ parts = <<>> THEN <<>>
        ELSE IF ~contains(parts[1], <<"=", ">">>) /\ ~contains(parts[1], <<"-", ">">>)
        THEN <<>>
        ELSE LET halves == SplitMapping(parts[1])
                 target_raw == strip(halves[1])
                 alias_raw == strip(halves[2])
                 opts == ParseOptions(Tail(parts), "keep", <<>>)
             IN  IF alias_raw = <<>> \/ target_raw = <<>> THEN <<>>
                 ELSE <<MappingEntry(alias_raw, target_raw, opts[1], opts[2])>>

(***************************************************************************)
(* main.py: the builders of the five configuration shapes                  *)
(***************************************************************************)

_build_mapping_from_config(command, alias_text, silent, reply_text) ==
    LET command_str == _read_str(command)
        alias_str == _read_str(alias_text)
        reply_text_str == _read_text(reply_text)
        reply_mode == IF truthy(silent) THEN "silent"
                      ELSE IF reply_text_str # <<>> THEN "custom" ELSE "keep"
    IN  IF command_str = <<>> \/ alias_str = <<>> THEN <<>>
        ELSE <<MappingEntry(alias_str, command_str, reply_mode, reply_text_str)>>

_build_fixed_mapping(command, data) ==
    IF data.t # "dict" THEN <<>>
    ELSE _build_mapping_from_config(
             Str(command),
             get(data, "alias_text", None),
             get(data, "silent", Bool(FALSE)),
             get(data, "reply_text", None))

CustomItem(item) ==
    IF item.t # "dict" THEN <<>>
    ELSE _build_mapping_from_config(
             get(item, "command", None),
             or(or(get(item, "alias_text", None), get(item, "alias", None)),
                get(item, "mask", None)),
             get(item, "silent", Bool(FALSE)),
             or(or(get(item, "reply_text", None), get(item, "reply", None)),
                get(item, "U+56DE U+590D", None)))

RECURSIVE CustomItems(_)
CustomItems(items) ==
    IF items = <<>> THEN <<>>
    ELSE CustomItem(Head(items)) \o CustomItems(Tail(items))

_build_custom_mappings(raw_list) ==
    IF raw_list.t # "list" THEN <<>> ELSE CustomItems(raw_list.l)

\* The f-string "{command_str} => {alias_str} || reply_mode={reply_mode} || reply={reply_text}"
RecordLine(command_str, alias_str, reply_mode, reply_text) ==
    command_str \o <<" ", "=", ">", " ">> \o alias_str
    \o <<" ", "|", "|", " ", "r", "e", "p", "l", "y", "_", "m", "o", "d", "e", "=">> \o reply_mode
    \o <<" ", "|", "|", " ", "r", "e", "p", "l", "y", "=">> \o reply_text

\* One item of the mixed list: a str is an inline line, a dict a record.
MixedItem(item) ==
    IF item.t = "str" THEN _parse_mapping_line(item.s)
    ELSE IF item.t # "dict" THEN <<>>
    ELSE LET command == or(or(or(get(item, "command", None), get(item, "target", None)),
                              get(item, "U+771F U+5B9E U+6307 U+4EE4", None)),
                           get(item, "U+771F U+5BE6 U+6307 U+4EE4", None))
             alias == or(or(or(get(item, "alias", None), get(item, "mask", None)),
                            get(item, "U+4F2A U+88C5 U+6307 U+4EE4", None)),
                         get(item, "U+507D U+88DD U+6307 U+4EE4", None))
             command_str == _read_str(command)
             alias_str == _read_str(alias)
             reply_mode == _read_text(
                 or(or(get(item, "reply_mode", None),
                       get(item, "U+56DE U+590D U+6A21 U+5F0F", None)),
                    Str(<<"k", "e", "e", "p">>)))
             reply_text == _read_text(
                 or(or(get(item, "reply_text", None), get(item, "U+56DE U+590D", None)),
                    Str(<<>>)))
         IN  IF command_str = <<>> \/ alias_str = <<>> THEN <<>>
             ELSE _parse_mapping_line(RecordLine(command_str, alias_str, reply_mode, reply_text))

RECURSIVE _build_mappings(_)
_build_mappings(raw_list) ==
    IF raw_list = <<>> THEN <<>>
    ELSE MixedItem(Head(raw_list)) \o _build_mappings(Tail(raw_list))

IsComment(line) ==
    \/ startswith(line, <<"#">>)
    \/ startswith(line, <<"/", "/">>)
    \/ startswith(line, <<";">>)

RECURSIVE TextLines(_)
TextLines(raws) ==
    IF raws = <<>> THEN <<>>
    ELSE LET line == strip(Head(raws))
         IN  (IF line = <<>> \/ IsComment(line) THEN <<>> ELSE _parse_mapping_line(line))
             \o TextLines(Tail(raws))

_build_mappings_from_text(text) ==
    IF text.t # "str" \/ text.s = <<>> THEN <<>> ELSE TextLines(splitlines(text.s))

(***************************************************************************)
(* The parser on its own: one input, drawn in ParseInit, parsed once       *)
(***************************************************************************)

\* The longest run of blanks put around each part of an input line.
MaxPad == 1

Pad(n) == [i \in 1..n |-> " "]
Pads == {Pad(n) : n \in 0..MaxPad}

Lefts == {<<"/", "r", "e", "s", "e", "t">>, <<"/", "n", "e", "w", " ", "x">>,
          <<"a", "-", ">", "b">>, <<>>}
Rights == {<<"/", "r">>, <<"/", "n", "\t", "y">>, <<>>}
Seps == {<<"=", ">">>, <<"-", ">">>, <<":">>}
OptionTails == {<<>>,
                <<"|", "|">>,
                <<"|", "|", " ", "S", "i", "l", "e", "n", "t">>,
                <<"|", "|", "d", "o", "n", "e">>,
                <<"|", "|", "r", "e", "p", "l", "y", "=", "h", "i", "|", "|", "k", "e", "e", "p">>,
                <<"|", "|", "U+56DE", "U+590D", ":", "o", "k", "|", "|",
                  "R", "e", "p", "l", "y", "_", "M", "o", "d", "e", "=", "U+9759", "U+9ED8">>,
                <<"|", "|", "t", "e", "x", "t", "=", "a", "=", "b", "|", "|",
                  "r", "e", "p", "l", "y", "_", "m", "o", "d", "e", "=", "l", "o", "u", "d">>}

EmptyDict == [k \in {} |-> None]

CommandKeys == {"command", "target", "U+771F U+5B9E U+6307 U+4EE4"}
AliasKeys == {"alias", "mask", "U+507D U+88DD U+6307 U+4EE4"}
CommandValues == {Str(<<"/", "n", "e", "w">>), Str(<<" ", "/", "a", " ", "b">>), Str(<<>>),
                  Bool(TRUE)}
AliasValues == {Str(<<"/", "n">>), Str(<<>>)}
\* The reply_mode and reply keys a record may carry; EmptyDict: the key is absent.
ModeParts == {EmptyDict,
              "reply_mode" :> Str(<<"k", "e", "e", "p">>),
              "reply_mode" :> Str(<<"s", "i", "l", "e", "n", "t">>),
              "reply_mode" :> Str(<<"c", "u", "s", "t", "o", "m">>),
              "U+56DE U+590D U+6A21 U+5F0F" :> Str(<<"U+9759", "U+9ED8">>)}
TextParts == {EmptyDict,
              "reply_text" :> Str(<<>>),
              "reply_text" :> Str(<<"d", "o", "n", "e">>),
              "reply_text" :> None,
              "U+56DE U+590D" :> Str(<<"o", "k">>)}

PlugIdle ==
    /\ cfgIdx = 0
    /\ Store = [enabled |-> TRUE, mappings |-> <<>>]
    /\ load = [pc |-> "idle", enabled |-> TRUE, mappings |-> <<>>]
    /\ hostCfg = 1
    /\ event = None
    /\ last = None

ParseInit ==
    /\ pc = "in"
    /\ outEntries = <<>>
    /\ PlugIdle
    /\ \/ /\ inKind = "line"
          /\ inItem = None
          /\ inA \in Lefts
          /\ inB \in Rights
          /\ \E sep \in Seps, tail \in OptionTails, p1 \in Pads, p2 \in Pads, p3 \in Pads,
                p4 \in Pads :
                inLine = p1 \o inA \o p2 \o sep \o p3 \o inB \o p4 \o tail
       \/ /\ inKind = "record"
          /\ inLine = <<>>
          /\ \E ck \in CommandKeys, ak \in AliasKeys, cv \in CommandValues,
                av \in AliasValues, mp \in ModeParts, tp \in TextParts :
                /\ inA = cv
                /\ inB = av
                /\ inItem = Dict((ck :> cv) @@ (ak :> av) @@ mp @@ tp)

\* _parse_mapping_line(line)
ParseLine ==
    /\ pc = "in"
    /\ inKind = "line"
    /\ outEntries' = _parse_mapping_line(inLine)
    /\ pc' = "out"
    /\ UNCHANGED <<inKind, inA, inB, inLine, inItem, plugVars>>

\* _build_mappings([item])
BuildRecord ==
    /\ pc = "in"
    /\ inKind = "record"
    /\ outEntries' = _build_mappings(<<inItem>>)
    /\ pc' = "out"
    /\ UNCHANGED <<inKind, inA, inB, inLine, inItem, plugVars>>

ParseNext == ParseLine \/ BuildRecord

ParseSpec == ParseInit /\ [][ParseNext]_vars

(***************************************************************************)
(* main.py: the matcher                                                    *)
(***************************************************************************)

\* AstrMessageEvent: the fields the plugin reads and writes.
\*   message_str, is_at_or_wake_command, the extras (a dict), the result
\*   (kind "none": no reply yet; "host": the reply a handler produced;
\*   "empty": make_result(); "plain": plain_result(text)), and call_llm,
\*   which should_call_llm sets.
NewEvent(message_str, is_wake) ==
    [message_str |-> message_str, is_at_or_wake_command |-> is_wake,
     extra |-> EmptyDict, result |-> [kind |-> "none", text |-> <<>>],
     call_llm |-> FALSE]

get_extra(ev, key, default) == IF key \in DOMAIN ev.extra THEN ev.extra[key] ELSE default
set_extra(ev, key, value) == [ev EXCEPT !.extra = (key :> value) @@ ev.extra]
make_result == [kind |-> "empty", text |-> <<>>]
plain_result(text) == [kind |-> "plain", text |-> text]

alias_norm(entry, prefixes) == _strip_wake_prefix(_normalize_text(entry.alias_raw), prefixes)
target_norm(entry, prefixes) == _strip_wake_prefix(_normalize_text(entry.target_raw), prefixes)

\* Line 272, with a prefix test that forgets the word boundary.
Matches_AnyPrefix(msg, alias) == msg = alias \/ startswith(msg, alias)

\* Line 272
Matches(msg, alias) == msg = alias \/ startswith(msg, alias \o <<" ">>)

\* The loop of lines 268-293: the index of the first entry at or after i that
\* reaches line 279, 0 when the loop runs out.
RECURSIVE FirstFrom(_, _, _, _)
FirstFrom(mappings, i, msg, prefixes) ==
    IF i > Len(mappings) THEN 0
    ELSE IF /\ alias_norm(mappings[i], prefixes) # <<>>
            /\ Matches(msg, alias_norm(mappings[i], prefixes))
            /\ target_norm(mappings[i], prefixes) # <<>>
         THEN i
         ELSE FirstFrom(mappings, i + 1, msg, prefixes)

\* Lines 279-280, with the suffix left untrimmed.
NewMsg_RawSuffix(target, alias, msg) ==
    LET suffix == SubSeq(msg, Len(alias) + 1, Len(msg))
    IN  IF suffix = <<>> THEN target ELSE target \o <<" ">> \o suffix

\* Lines 279-280
NewMsg(target, alias, msg) ==
    LET suffix == strip(SubSeq(msg, Len(alias) + 1, Len(msg)))
    IN  IF suffix = <<>> THEN target ELSE target \o <<" ">> \o suffix

\* The calls on the host that _apply_mapping makes, in the order it makes
\* them; each may raise.  0: none of them raises.
RaisePoints == 0..11
AtGetApplied == 1      \* line 257  event.get_extra
AtGetMessage == 2      \* line 262  event.get_message_str
AtGetPrefixes == 3     \* line 266  cfg.get
AtSetApplied == 4      \* line 282  event.set_extra
AtSetMode == 5         \* line 283
AtSetText == 6         \* line 284
AtSetAlias == 7        \* line 285
AtSetTarget == 8       \* line 286
AtSetOriginal == 9     \* line 287  event.get_message_str, event.set_extra
AtWriteMessage == 10   \* line 290  event.message_str = new_msg
AtCallLlm == 11        \* line 292  event.should_call_llm

\* Lines 282-292 up to, not including, the call `stop`.
Annotate(ev, entry, alias, target, new_msg, stop) ==
    LET e4 == IF stop > AtSetApplied THEN set_extra(ev, "_cmdmask_applied", TRUE) ELSE ev
        e5 == IF stop > AtSetMode THEN set_extra(e4, "_cmdmask_reply_mode", entry.reply_mode)
              ELSE e4
        e6 == IF stop > AtSetText THEN set_extra(e5, "_cmdmask_reply_text", entry.reply_text)
              ELSE e5
        e7 == IF stop > AtSetAlias THEN set_extra(e6, "_cmdmask_alias", alias) ELSE e6
        e8 == IF stop > AtSetTarget THEN set_extra(e7, "_cmdmask_target", target) ELSE e7
        e9 == IF stop > AtSetOriginal
              THEN set_extra(e8, "_cmdmask_original_message", e8.message_str) ELSE e8
        e10 == IF stop > AtWriteMessage /\ new_msg # e9.message_str
               THEN [e9 EXCEPT !.message_str = new_msg] ELSE e9
    IN  IF stop > AtCallLlm THEN [e10 EXCEPT !.call_llm = TRUE] ELSE e10

Outcome(ev, raised, ret) == [ev |-> ev, raised |-> raised, ret |-> ret]

\* Line 255, with the enabled flag not looked at.
StoreActive_IgnoreEnabled(st) == st.mappings # <<>>

\* Line 255
StoreActive(st) == st.enabled /\ st.mappings # <<>>

\* Line 257, with the guard missing.
AlreadyApplied_Never(ev) == FALSE

\* Line 257
AlreadyApplied(ev) == get_extra(ev, "_cmdmask_applied", FALSE)

\* _apply_mapping(event, cfg) on the store st, the host call numbered r
\* raising when it is reached: the event after it, whether it raised, and
\* what it returned.
_apply_mapping(ev, cfg, st, r) ==
    IF ~StoreActive(st) THEN Outcome(ev, FALSE, FALSE)
    ELSE IF r = AtGetApplied THEN Outcome(ev, TRUE, FALSE)
    ELSE IF AlreadyApplied(ev) THEN Outcome(ev, FALSE, TRUE)
    ELSE IF ~ev.is_at_or_wake_command THEN Outcome(ev, FALSE, FALSE)
    ELSE IF r = AtGetMessage THEN Outcome(ev, TRUE, FALSE)
    ELSE LET msg == _normalize_text(ev.message_str)
         IN  IF msg = <<>> THEN Outcome(ev, FALSE, FALSE)
             ELSE IF r = AtGetPrefixes THEN Outcome(ev, TRUE, FALSE)
             ELSE LET prefixes == _get_wake_prefixes(cfg)
                      i == FirstFrom(st.mappings, 1, msg, prefixes)
                  IN  IF i = 0 THEN Outcome(ev, FALSE, FALSE)
                      ELSE LET alias == alias_norm(st.mappings[i], prefixes)
                               target == target_norm(st.mappings[i], prefixes)
                               new_msg == NewMsg(target, alias, msg)
                               reached == /\ r >= AtSetApplied
                                          /\ (r = AtWriteMessage => new_msg # ev.message_str)
                           IN  IF reached
                               THEN Outcome(Annotate(ev, st.mappings[i], alias, target,
                                                     new_msg, r), TRUE, FALSE)
                               ELSE Outcome(Annotate(ev, st.mappings[i], alias, target,
                                                     new_msg, AtCallLlm + 1), FALSE, TRUE)

(***************************************************************************)
(* main.py: the reply hook                                                 *)
(***************************************************************************)

\* Lines 361-363, with silent treated as keep.
SilentResult_Kept(result) == result

\* Lines 361-363
SilentResult(result) == make_result

\* CmdMask._override_reply: the event's result after the hook.
_override_reply(ev) ==
    IF ~get_extra(ev, "_cmdmask_applied", FALSE) THEN ev.result
    ELSE LET mode == get_extra(ev, "_cmdmask_reply_mode", "keep")
         IN  IF mode = "keep" THEN ev.result
             ELSE IF mode = "silent" THEN SilentResult(ev.result)
             ELSE IF mode = "custom"
                  THEN LET text == get_extra(ev, "_cmdmask_reply_text", <<>>)
                       IN  IF text = <<>> \/ strip(text) = <<>> THEN make_result
                           ELSE plain_result(text)
             ELSE ev.result

(***************************************************************************)
(* main.py: the store and its reload                                       *)
(***************************************************************************)

\* The configurations the host hands the plugin; 0 stands for config=None.
PluginConfigs == <<
    \* 1: a text block, aliases /r and /r2 in that order
    Dict("rules_text" :> Str(<<"#", " ", "s", "h", "o", "r", "t", "c", "u", "t", "s", "\n", "/", "r", "e", "s", "e", "t", " ", "=", ">", " ", "/", "r", "\n", "/", "n", "e", "w", " ", "=", ">", " ", "/", "r", "2", " ", "|", "|", " ", "s", "i", "l", "e", "n", "t", "\n", "\n", "/", "e", "c", "h", "o", " ", "-", ">", " ", "/", "e", " ", "|", "|", " ", "d", "o", "n", "e">>)),
    \* 2: the two shortcuts and a custom rule whose target starts with its alias
    Dict(("reset_rule" :> Dict("alias_text" :> Str(<<"/", "n", "e", "w">>)))
         @@ ("new_rule" :> Dict(("alias_text" :> Str(<<"/", "n">>)) @@ ("silent" :> Bool(TRUE))))
         @@ ("custom_rules" :> List(<<Dict(("command" :> Str(<<"/", "a", " ", "b">>))
                                           @@ ("alias" :> Str(<<"/", "a">>))
                                           @@ ("reply" :> Str(<<"d", "o", "n", "e">>)))>>))),
    \* 3: disabled, with a rule
    Dict(("enable" :> Bool(FALSE)) @@ ("rules_text" :> Str(<<"/", "r", "e", "s", "e", "t", " ", "=", ">", " ", "/", "r">>))),
    \* 4: a text rule whose target is a bare wake prefix, and a mixed list
    Dict(("rules_text" :> Str(<<"/", " ", "=", ">", " ", "/", "e">>))
         @@ ("mappings" :> List(<<Str(<<"/", "x", " ", "=", ">", " ", "/", "e", " ", "|", "|", " ", "h", "i", " ", "|", "|", " ", "s", "i", "l", "e", "n", "t">>),
                                  Dict(("command" :> Str(<<"/", "n", "e", "w">>)) @@ ("alias" :> Str(<<"/", "r">>)))>>)))
>>

_cfg(config, key, default) == IF config.t = "none" THEN default ELSE get(config, key, default)

Config(i) == IF i = 0 THEN None ELSE PluginConfigs[i]

\* Lines 324-342: the locals `enabled` and `mappings` of _load_config.
LoadedEnabled(config) == truthy(_cfg(config, "enable", Bool(TRUE)))

LoadedMappings(config) ==
    LET raw == _cfg(config, "mappings", List(<<>>))
        raw_mappings == IF raw.t # "list" THEN <<>> ELSE raw.l
    IN  _build_fixed_mapping(<<"/", "r", "e", "s", "e", "t">>, _cfg(config, "reset_rule", Dict(EmptyDict)))
        \o _build_fixed_mapping(<<"/", "n", "e", "w">>, _cfg(config, "new_rule", Dict(EmptyDict)))
        \o _build_custom_mappings(_cfg(config, "custom_rules", List(<<>>)))
        \o _build_mappings_from_text(_cfg(config, "rules_text", Str(<<>>)))
        \o _build_mappings(raw_mappings)

\* What _load_config builds from each configuration.
Loaded ==
    [i \in 0..Len(PluginConfigs) |->
        [enabled |-> LoadedEnabled(Config(i)), mappings |-> LoadedMappings(Config(i))]]

(***************************************************************************)
(* The plugin in its host: reloads, incoming messages, the filter, the     *)
(* host's reply and the reply hook                                         *)
(***************************************************************************)

\* The host configurations the filter is handed: no wake prefix, and "/".
HostConfigs == <<Dict(EmptyDict), Dict("wake_prefix" :> List(<<Str(<<"/">>)>>))>>

\* The message texts that arrive.
Messages == {<<"/", "r", "2", " ", "x">>,
             <<"/", "r", "x">>,
             <<" ", "/", "r", " ", "\t", " ", "y", " ">>,
             <<"/", "n", "e", "w", " ", "s", "e", "s", "s", "i", "o", "n", "1">>,
             <<"/", "n", "e", "w">>,
             <<"/", "a">>,
             <<"/", "e", " ", "h", "i">>,
             <<"e">>,
             <<>>}

\* The replies a command handler of the host produces.
Replies == {<<"o", "k">>}

Idle == [pc |-> "idle", enabled |-> TRUE, mappings |-> <<>>, prev |-> 0]

ParseOff ==
    /\ pc = "off"
    /\ inKind = "none"
    /\ inA = <<>>
    /\ inB = <<>>
    /\ inLine = <<>>
    /\ inItem = None
    /\ outEntries = <<>>

\* `last` after a handler: op names it; raised: an exception was raised in
\* _apply_mapping; pre: the event it was called on; settled: the matcher has
\* returned normally on this event since the store last changed;
\* was_settled: settled, before this handler.
Ran(op, raised, pre, settled, was_settled) ==
    [op |-> op, raised |-> raised, pre |-> pre, settled |-> settled,
     was_settled |-> was_settled]

\* The state after `class _State` is evaluated and STATE = _State() (lines
\* 24-29), before any configuration is loaded.
Init ==
    /\ ParseOff
    /\ cfgIdx = 0
    /\ Store = [enabled |-> TRUE, mappings |-> <<>>]
    /\ load = Idle
    /\ hostCfg \in 1..Len(HostConfigs)
    /\ event = NewEvent(<<>>, FALSE)
    /\ last = Ran("init", FALSE, NewEvent(<<>>, FALSE), FALSE, FALSE)

\* _load_config and the filter are plain functions without a suspension
\* point, called from the host's one event loop: none starts while a
\* _load_config is between its first line and its last.
Quiescent_Preemptible == TRUE

Quiescent == load.pc = "idle"

\* CmdMask.__init__(context, config) up to line 342 of _load_config: the
\* locals are built, STATE is not yet written.
LoadBegin(i) ==
    /\ load.pc = "idle"
    /\ cfgIdx' = i
    /\ load' = [pc |-> "built", enabled |-> Loaded[i].enabled,
                mappings |-> Loaded[i].mappings, prev |-> cfgIdx]
    /\ last' = Ran("load", FALSE, event, FALSE, FALSE)
    /\ UNCHANGED <<parseVars, Store, hostCfg, event>>

\* Line 344: STATE.enabled = enabled
LoadWriteEnabled ==
    /\ load.pc = "built"
    /\ Store' = [Store EXCEPT !.enabled = load.enabled]
    /\ load' = [load EXCEPT !.pc = "enabled_written"]
    /\ last' = Ran("load", FALSE, event, FALSE, FALSE)
    /\ UNCHANGED <<parseVars, cfgIdx, hostCfg, event>>

\* Line 345, extending the list in the store instead of replacing it.
LoadWriteMappings_Extend ==
    /\ load.pc = "enabled_written"
    /\ Store' = [Store EXCEPT !.mappings = Store.mappings \o load.mappings]
    /\ load' = [Idle EXCEPT !.prev = load.prev]
    /\ last' = Ran("load", FALSE, event, FALSE, FALSE)
    /\ UNCHANGED <<parseVars, cfgIdx, hostCfg, event>>

\* Line 345: STATE.mappings = mappings
LoadWriteMappings ==
    /\ load.pc = "enabled_written"
    /\ Store' = [Store EXCEPT !.mappings = load.mappings]
    /\ load' = [Idle EXCEPT !.prev = load.prev]
    /\ last' = Ran("load", FALSE, event, FALSE, FALSE)
    /\ UNCHANGED <<parseVars, cfgIdx, hostCfg, event>>

\* The host receives a message and makes its event.
Receive(message_str, is_wake) ==
    /\ Quiescent
    /\ event' = NewEvent(message_str, is_wake)
    /\ last' = Ran("receive", FALSE, event', FALSE, FALSE)
    /\ UNCHANGED <<parseVars, cfgIdx, Store, load, hostCfg>>

\* _CommandMaskFilter.filter(event, cfg), lines 299-304: _apply_mapping, an
\* exception caught and logged, False returned.
Filter(r) ==
    /\ Quiescent
    /\ LET o == _apply_mapping(event, HostConfigs[hostCfg], Store, r)
       IN  /\ event' = o.ev
           /\ last' = Ran("filter", o.raised, event, last.settled \/ ~o.raised, last.settled)
    /\ UNCHANGED <<parseVars, cfgIdx, Store, load, hostCfg>>

\* A command handler of the host sets the event's result.
HostReply(text) ==
    /\ Quiescent
    /\ event.result.kind = "none"
    /\ event' = [event EXCEPT !.result = [kind |-> "host", text |-> text]]
    /\ last' = Ran("reply", FALSE, event', last.settled, last.settled)
    /\ UNCHANGED <<parseVars, cfgIdx, Store, load, hostCfg>>

\* The host decorates a result: CmdMask._override_reply(event), lines 352-371.
OverrideReply ==
    /\ Quiescent
    /\ event.result.kind # "none"
    /\ event' = [event EXCEPT !.result = _override_reply(event)]
    /\ last' = Ran("override", FALSE, event, last.settled, last.settled)
    /\ UNCHANGED <<parseVars, cfgIdx, Store, load, hostCfg>>

Next ==
    \/ \E i \in 0..Len(PluginConfigs) : LoadBegin(i)
    \/ LoadWriteEnabled
    \/ LoadWriteMappings
    \/ \E m \in Messages, w \in BOOLEAN : Receive(m, w)
    \/ \E r \in RaisePoints : Filter(r)
    \/ \E t \in Replies : HostReply(t)
    \/ OverrideReply

Spec == Init /\ [][Next]_vars

(***************************************************************************)
(* The claims                                                              *)
(***************************************************************************)

\* The event carries the annotation `key`, and it is `value`.
NoteIs(ev, key, value) == key \in DOMAIN ev.extra /\ ev.extra[key] = value
IsApplied(ev) == NoteIs(ev, "_cmdmask_applied", TRUE)
Blank(text) == \A i \in 1..Len(text) : text[i] \in Whitespace

\* The parsed line is "A => B": A, "=>", B, with blanks around each, A and B
\* non-empty after trimming, no "=>" inside A and no "||" anywhere.
IsArrowLine ==
    /\ inKind = "line"
    /\ strip(inA) # <<>>
    /\ strip(inB) # <<>>
    /\ ~contains(inA, <<"=", ">">>)
    /\ ~contains(inLine, <<"|", "|">>)
    /\ \E p1 \in Pads, p2 \in Pads, p3 \in Pads, p4 \in Pads :
           inLine = p1 \o inA \o p2 \o <<"=", ">">> \o p3 \o inB \o p4

NoReplyText(item) ==
    \A k \in {"reply_text", "U+56DE U+590D"} :
        k \in DOMAIN item.d => (item.d[k].t = "none" \/ (item.d[k].t = "str" /\ Blank(item.d[k].s)))

ModeWord(mode) ==
    CASE mode = "silent" -> <<"s", "i", "l", "e", "n", "t">>
      [] mode = "custom" -> <<"c", "u", "s", "t", "o", "m">>
      [] mode = "keep" -> <<"k", "e", "e", "p">>

\* The reply mode a record names: keep without a reply_mode key.
NamesMode(item, mode) ==
    IF "reply_mode" \in DOMAIN item.d
    THEN item.d["reply_mode"] = Str(ModeWord(mode))
    ELSE IF "U+56DE U+590D U+6A21 U+5F0F" \in DOMAIN item.d
    THEN mode = "silent" /\ item.d["U+56DE U+590D U+6A21 U+5F0F"] = Str(<<"U+9759", "U+9ED8">>)
    ELSE mode = "keep"

\* C10: a record of the mixed list with a command and an alias and no reply
\* text builds an entry whose reply mode is the one the record names, keep
\* without a reply_mode key and silent when it names silent; never custom.
C10_RecordKeepsItsMode ==
    (/\ pc = "out"
     /\ inKind = "record"
     /\ inA.t = "str" /\ strip(inA.s) # <<>>
     /\ inB.t = "str" /\ strip(inB.s) # <<>>
     /\ NoReplyText(inItem))
    => \A mode \in {"keep", "silent"} :
           NamesMode(inItem, mode) =>
               /\ Len(outEntries) = 1
               /\ outEntries[1].reply_mode = mode

\* The entries of the store that the claim C2 calls matching: the normalized
\* alias is non-empty and equals the message or is followed in it by a
\* space, and the normalized target is non-empty.
Qualifying(mappings, msg, prefixes) ==
    {i \in 1..Len(mappings) :
        LET a == alias_norm(mappings[i], prefixes)
        IN  /\ a # <<>>
            /\ Len(a) <= Len(msg)
            /\ \A k \in 1..Len(a) : msg[k] = a[k]
            /\ (Len(msg) > Len(a) => msg[Len(a) + 1] = " ")
            /\ target_norm(mappings[i], prefixes) # <<>>}

Prefixes == _get_wake_prefixes(HostConfigs[hostCfg])

\* The matcher returned normally on a wake-triggered event not yet applied,
\* with the store enabled and non-empty.
MatcherRan ==
    /\ last.op = "filter"
    /\ ~last.raised
    /\ Store.enabled
    /\ Store.mappings # <<>>
    /\ last.pre.is_at_or_wake_command
    /\ ~IsApplied(last.pre)

\* C2: the entry the matcher applies is the first one in store order that
\* matches; when none matches, the event is left as it was (so "/rx" is not
\* rewritten by the alias "/r").
C2_FirstMatchWins ==
    MatcherRan =>
        LET msg == _normalize_text(last.pre.message_str)
            hits == Qualifying(Store.mappings, msg, Prefixes)
        IN  IF hits = {} THEN event = last.pre
            ELSE LET i == CHOOSE i \in hits : \A j \in hits : i <= j
                 IN  /\ IsApplied(event)
                     /\ event.extra["_cmdmask_alias"] = alias_norm(Store.mappings[i], Prefixes)
                     /\ event.extra["_cmdmask_target"] = target_norm(Store.mappings[i], Prefixes)
                     /\ event.extra["_cmdmask_reply_mode"] = Store.mappings[i].reply_mode
                     /\ event.extra["_cmdmask_reply_text"] = Store.mappings[i].reply_text

\* Two entries match "/e hi"; the earlier one is applied.
C2_Witness ==
    /\ MatcherRan
    /\ last.pre.message_str = <<"/", "e", " ", "h", "i">>
    /\ Cardinality(Qualifying(Store.mappings, _normalize_text(last.pre.message_str), Prefixes)) = 2
    /\ event.message_str = <<"/", " ", "h", "i">>

\* C3: after a match the message text is the target alone when the
\* normalized message is the alias, else the target, a space and the trimmed
\* rest of the normalized message; the text before the rewrite is recorded
\* as the original message.
C3_Rewrite ==
    (MatcherRan /\ IsApplied(event)) =>
        LET msg == _normalize_text(last.pre.message_str)
            a == event.extra["_cmdmask_alias"]
            t == event.extra["_cmdmask_target"]
        IN  /\ event.message_str =
                  IF msg = a THEN t
                  ELSE t \o <<" ">> \o strip(SubSeq(msg, Len(a) + 1, Len(msg)))
            /\ event.extra["_cmdmask_original_message"] = last.pre.message_str

C3_Witness ==
    /\ MatcherRan
    /\ last.pre.message_str = <<"/", "n", "e", "w", " ", "s", "e", "s", "s", "i", "o", "n", "1">>
    /\ event.message_str = <<"/", "r", "e", "s", "e", "t", " ", "s", "e", "s", "s", "i", "o", "n", "1">>
    /\ NoteIs(event, "_cmdmask_alias", <<"/", "n", "e", "w">>)

\* C4: the reply hook leaves the reply alone when the event is not applied
\* or its mode is keep, empties it when the mode is silent or custom with a
\* blank text, and makes it the recorded text when custom with a text.
C4_ReplyPolicy ==
    last.op = "override" =>
        LET ev == last.pre
            mode == IF "_cmdmask_reply_mode" \in DOMAIN ev.extra
                    THEN ev.extra["_cmdmask_reply_mode"] ELSE "keep"
            text == IF "_cmdmask_reply_text" \in DOMAIN ev.extra
                    THEN ev.extra["_cmdmask_reply_text"] ELSE <<>>
        IN  /\ event = [ev EXCEPT !.result = event.result]
            /\ (~IsApplied(ev) \/ mode = "keep") => event.result = ev.result
            /\ (IsApplied(ev) /\ mode = "silent") =>
                   event.result = [kind |-> "empty", text |-> <<>>]
            /\ (IsApplied(ev) /\ mode = "custom" /\ Blank(text)) =>
                   event.result = [kind |-> "empty", text |-> <<>>]
            /\ (IsApplied(ev) /\ mode = "custom" /\ ~Blank(text)) =>
                   event.result = [kind |-> "plain", text |-> text]

\* A silent entry that carries a reply text empties the host's reply.
C4_Witness ==
    /\ last.op = "override"
    /\ IsApplied(last.pre)
    /\ NoteIs(last.pre, "_cmdmask_reply_mode", "silent")
    /\ "_cmdmask_reply_text" \in DOMAIN last.pre.extra
    /\ last.pre.extra["_cmdmask_reply_text"] # <<>>
    /\ last.pre.result.kind = "host"
    /\ event.result.kind = "empty"

\* C5: with the store disabled, a run of the matcher changes neither the
\* message text nor the annotations.
C5_DisabledNoRewrite ==
    (last.op = "filter" /\ ~Store.enabled) => event = last.pre

\* The store is disabled and holds the alias "/r"; the message "/r y" stays.
C5_Witness ==
    /\ last.op = "filter"
    /\ ~Store.enabled
    /\ Store.mappings # <<>>
    /\ Store.mappings[1].alias_raw = <<"/", "r">>
    /\ event.is_at_or_wake_command
    /\ _normalize_text(event.message_str) = <<"/", "r", " ", "y">>

\* The list _load_config builds: reset shortcut, new shortcut, custom rules,
\* text rules, mixed list.
InOrder(config) ==
    LET raw == _cfg(config, "mappings", List(<<>>))
    IN  _build_fixed_mapping(<<"/", "r", "e", "s", "e", "t">>, _cfg(config, "reset_rule", Dict(EmptyDict)))
        \o _build_fixed_mapping(<<"/", "n", "e", "w">>, _cfg(config, "new_rule", Dict(EmptyDict)))
        \o _build_custom_mappings(_cfg(config, "custom_rules", List(<<>>)))
        \o _build_mappings_from_text(_cfg(config, "rules_text", Str(<<>>)))
        \o _build_mappings(IF raw.t = "list" THEN raw.l ELSE <<>>)

\* C6: between reloads the store's list is the one built from the latest
\* configuration, and an entry the matcher applies is an entry of it.
C6_ReloadReplaces ==
    load.pc = "idle" =>
        /\ Store.mappings = InOrder(Config(cfgIdx))
        /\ (MatcherRan /\ IsApplied(event)) =>
               \E i \in 1..Len(InOrder(Config(cfgIdx))) :
                   LET e == InOrder(Config(cfgIdx))[i]
                   IN  /\ event.extra["_cmdmask_alias"] = alias_norm(e, Prefixes)
                       /\ event.extra["_cmdmask_target"] = target_norm(e, Prefixes)
                       /\ event.extra["_cmdmask_reply_mode"] = e.reply_mode
                       /\ event.extra["_cmdmask_reply_text"] = e.reply_text

\* Configuration 1 maps "/r" to "/reset", configuration 4 to "/new": after
\* the reload from 1 to 4, "/r y" becomes "/new y".
C6_Witness ==
    /\ load.pc = "idle"
    /\ load.prev = 1
    /\ cfgIdx = 4
    /\ MatcherRan
    /\ _normalize_text(last.pre.message_str) = <<"/", "r", " ", "y">>
    /\ event.message_str = <<"/", "n", "e", "w", " ", "y">>

\* C7: when a step of the matcher raises, the outcome is that of "no
\* match": the message text is unmodified and the event is not annotated as
\* applied.
C7_RaiseIsNoMatch ==
    (last.op = "filter" /\ last.raised) =>
        /\ event.message_str = last.pre.message_str
        /\ ~IsApplied(event)

C9_Idempotent ==
    (last.op = "filter" /\ (IsApplied(last.pre) \/ last.was_settled)) => event = last.pre

\* The alias "/a" with the target "/a b": the rewritten text matches the
\* alias again, and a second run leaves it.
C9_Witness ==
    /\ last.op = "filter"
    /\ ~last.raised
    /\ IsApplied(last.pre)
    /\ event.message_str = <<"/", "a", " ", "b">>
    /\ NoteIs(event, "_cmdmask_alias", <<"/", "a">>)
    /\ Qualifying(Store.mappings, _normalize_text(event.message_str), Prefixes) # {}

=============================================================================
